---- MODULE Spec2Model ----
(***************************************************************************)
(* A model of package commands (github.com/felix/commands): the command    *)
(* tree and RegisterChild (command.go), the dispatcher Execute/Run         *)
(* (command.go), the help renderer (help.go) and the flag accessors        *)
(* (flag.go).                                                              *)
(*                                                                         *)
(* Go strings that the code inspects (names, argument tokens, Short, Long) *)
(* are sequences of one-character strings; opaque values (streams, error   *)
(* texts) are TLA+ strings.  A nil pointer or nil interface is "nil".      *)
(***************************************************************************)
EXTENDS Integers, Sequences, FiniteSets, TLC

VARIABLES Name, Short, Long, Usage, Func, Flags,
          parent, children, longestName, stdin, stdout, stderr,
          pc, call, result, out, invoked, nregs

cmdVars == <<Name, Short, Long, Usage, Func, Flags, parent, children, longestName>>
ioVars == <<stdin, stdout, stderr>>
callVars == <<pc, call, result, out, invoked, nregs>>
vars == <<cmdVars, ioVars, callVars>>

----------------------------------------------------------------------------
(* Bounds *)

\* longest command name tried against the name rule
MaxLen == 4
\* RegisterChild calls in one run of the registry specification
MaxRegs == 3
\* argument tokens after args[0] in one Run
MaxArgs == 3

----------------------------------------------------------------------------
(* Strings *)

Nil == "nil"

Lower == {"a","b","c","d","e","f","g","h","i","j","k","l","m",
          "n","o","p","q","r","s","t","u","v","w","x","y","z"}
Digit == {"0","1","2","3","4","5","6","7","8","9"}

\* byte order of the characters the model uses (sort.Strings compares bytes)
Ascii == <<" ", "-", ".", "0","1","2","3","4","5","6","7","8","9", "=", "A",
           "a","b","c","d","e","f","g","h","i","j","k","l","m",
           "n","o","p","q","r","s","t","u","v","w","x","y","z">>

Byte(c) == CHOOSE i \in 1..Len(Ascii) : Ascii[i] = c

RECURSIVE StrLess(_, _)
StrLess(s, t) ==
    IF t = <<>> THEN FALSE
    ELSE IF s = <<>> THEN TRUE
    ELSE IF s[1] # t[1] THEN Byte(s[1]) < Byte(t[1])
    ELSE StrLess(Tail(s), Tail(t))

Max(a, b) == IF a > b THEN a ELSE b

\* the strings of length at most n over alphabet A
StringsUpTo(A, n) == UNION {[1..k -> A] : k \in 0..n}

----------------------------------------------------------------------------
(* regexp: commandNameRegex and MatchString *)

Class(S) == [op |-> "class", set |-> S]
Cat(rs) == [op |-> "cat", args |-> rs]
Alt(rs) == [op |-> "alt", args |-> rs]
Opt(r) == [op |-> "opt", arg |-> r]
Star(r) == [op |-> "star", arg |-> r]
Plus(r) == [op |-> "plus", arg |-> r]
Anchored(r) == [op |-> "anchored", arg |-> r]

AlnumClass == Class(Lower \cup Digit)

\* a plausible slip in the pattern: the closing [a-z0-9] is lost, so a name
\* may end in a hyphen
commandNameRegexNoTail ==
    Alt(<< Anchored(AlnumClass),
           Anchored(Plus(Cat(<<Plus(AlnumClass), Opt(Class({"-"})), Star(AlnumClass)>>))) >>)

\* ^[a-z0-9]$|^([a-z0-9]+-?[a-z0-9]*)+[a-z0-9]$
commandNameRegex ==
    Alt(<< Anchored(AlnumClass),
           Anchored(Cat(<< Plus(Cat(<<Plus(AlnumClass), Opt(Class({"-"})), Star(AlnumClass)>>)),
                           AlnumClass >>)) >>)

\* Ends(re, s, I): the positions where a match of re that starts at a
\* position of I can end (positions count the characters consumed)
RECURSIVE Ends(_, _, _)
RECURSIVE EndsCat(_, _, _)
RECURSIVE EndsStar(_, _, _)
Ends(re, s, I) ==
    CASE re.op = "class" -> {i + 1 : i \in {k \in I : k < Len(s) /\ s[k + 1] \in re.set}}
      [] re.op = "cat"   -> EndsCat(re.args, s, I)
      [] re.op = "alt"   -> UNION {Ends(re.args[k], s, I) : k \in 1..Len(re.args)}
      [] re.op = "opt"   -> I \cup Ends(re.arg, s, I)
      [] re.op = "star"  -> EndsStar(re.arg, s, I)
      [] re.op = "plus"  -> EndsStar(re.arg, s, Ends(re.arg, s, I))
      [] re.op = "anchored" ->
            \* ^r$ : only a match from the start of the text to its end
            IF 0 \in I /\ Len(s) \in Ends(re.arg, s, {0}) THEN {Len(s)} ELSE {}
EndsCat(rs, s, I) ==
    IF rs = <<>> THEN I ELSE EndsCat(Tail(rs), s, Ends(Head(rs), s, I))
EndsStar(r, s, I) ==
    LET J == I \cup Ends(r, s, I)
    IN  IF J = I THEN I ELSE EndsStar(r, s, J)

MatchString(re, s) == Ends(re, s, {0}) # {}

----------------------------------------------------------------------------
(* Command nodes *)

\* the Command objects of a program: the package-level root and the
\* commands the program declares
Root == "root"
Nodes == {"root", "x", "y", "z"}

\* a FlagSet: its error handling and its formal flags, each with the type of
\* its Value, its DefValue and its current value; NoFlags is a nil *FlagSet
NoFlags == [nil |-> TRUE, onError |-> "exit", formal |-> <<>>]

\* a map with key k set to v
Put(m, k, v) == [j \in DOMAIN m \cup {k} |-> IF j = k THEN v ELSE m[j]]

\* a zero Command{}: a nil children map reads as an empty map everywhere the
\* package reads it (len, lookup, range), so both are the empty function
ZeroName == [n \in Nodes |-> <<>>]
ZeroFunc == [n \in Nodes |-> FALSE]
ZeroFlags == [n \in Nodes |-> NoFlags]
ZeroParent == [n \in Nodes |-> Nil]
ZeroChildren == [n \in Nodes |-> <<>>]
ZeroLongest == [n \in Nodes |-> 0]
ZeroStream == [n \in Nodes |-> Nil]

\* init(): root.stdin/stdout/stderr = os.Stdin/os.Stdout/os.Stderr
InitStdin == [ZeroStream EXCEPT ![Root] = "os.Stdin"]
InitStdout == [ZeroStream EXCEPT ![Root] = "os.Stdout"]
InitStderr == [ZeroStream EXCEPT ![Root] = "os.Stderr"]

\* init(): root.Name = path.Base(os.Args[0])
ProgName == <<"p">>

NoCall == [op |-> "none"]
NoResult == [status |-> "none"]

----------------------------------------------------------------------------
(* RegisterChild *)

\* the names tried against the name rule
NameAlphabet == {"a", "0", "-", "A"}
NameStrings == StringsUpTo(NameAlphabet, MaxLen)

\* commandNameRegex.MatchString(nm); the answers for NameStrings are
\* computed once
MatchedNames == {s \in NameStrings : MatchString(commandNameRegex, s)}
NameMatches(nm) ==
    IF nm \in NameStrings THEN nm \in MatchedNames
    ELSE MatchString(commandNameRegex, nm)

\* the panic RegisterChild(c, cmd) ends in, for cmd.Name = nm and
\* cmd.Short = sh, or Nil; the checks in the order of the code
RegisterPanic(c, nm, sh) ==
    IF nm = <<>> THEN "command name is required"
    ELSE IF sh = <<>> THEN "command short string is required"
    ELSE IF nm \in DOMAIN children[c] THEN "command already registered"
    ELSE IF ~NameMatches(nm) THEN "invalid command name"
    ELSE Nil

\* a plausible slip: the length of the newest name replaces longestName
LongestNameLast(old, nm) == Len(nm)

\* if len(cmd.Name) > c.longestName { c.longestName = len(cmd.Name) }
LongestNameAfter(old, nm) == IF Len(nm) > old THEN Len(nm) ELSE old

\* the body of c.RegisterChild(cmd), with cmd's fields given
RegisterBody(c, cmd, nm, sh) ==
    LET msg == RegisterPanic(c, nm, sh)
    IN  /\ call' = [op |-> "RegisterChild", c |-> c, cmd |-> cmd, name |-> nm,
                    short |-> sh, keys |-> DOMAIN children[c]]
        /\ out' = <<>>
        /\ invoked' = <<>>
        /\ IF msg # Nil
           THEN /\ pc' = "panicked"
                /\ result' = [status |-> "panic", msg |-> msg]
                /\ UNCHANGED <<parent, children, longestName>>
           ELSE /\ pc' = "returned"
                /\ result' = [status |-> "returned"]
                /\ parent' = [parent EXCEPT ![cmd] = c]
                /\ children' = [children EXCEPT ![c] = Put(@, nm, cmd)]
                /\ longestName' = [longestName EXCEPT ![c] = LongestNameAfter(@, nm)]

\* c.RegisterChild(cmd) on two Command objects of the program
RegisterChild(c, cmd) ==
    /\ pc = "idle"
    /\ nregs < MaxRegs
    /\ nregs' = nregs + 1
    /\ RegisterBody(c, cmd, Name[cmd], Short[cmd])
    /\ UNCHANGED <<Name, Short, Long, Usage, Func, Flags, ioVars>>

\* the commands of the program not yet declared
Fresh == {n \in Nodes \ {Root} : Name[n] = <<>> /\ Short[n] = <<>>}

\* RegisterChild(&Command{Name: nm, Short: sh}): the package-level function,
\* root.RegisterChild, on a newly declared command; a command whose
\* registration panicked is dropped with the call
RegisterNew(nm, sh) ==
    /\ pc = "idle"
    /\ Fresh # {}
    /\ LET cmd == CHOOSE n \in Fresh : TRUE
       IN  /\ RegisterBody(Root, cmd, nm, sh)
           /\ IF RegisterPanic(Root, nm, sh) = Nil
              THEN /\ Name' = [Name EXCEPT ![cmd] = nm]
                   /\ Short' = [Short EXCEPT ![cmd] = sh]
              ELSE UNCHANGED <<Name, Short>>
    /\ UNCHANGED <<Long, Usage, Func, Flags, ioVars, nregs>>

\* func Short(s string) { root.Short = s }
SetShort(s) ==
    /\ pc = "idle"
    /\ Short[Root] # s
    /\ Short' = [Short EXCEPT ![Root] = s]
    /\ UNCHANGED <<Name, Long, Usage, Func, Flags, parent, children, longestName,
                   ioVars, callVars>>

\* the caller goes on after a call that returned, or after recovering its
\* panic (as the package's tests do)
Continue ==
    /\ pc \in {"returned", "panicked"}
    /\ pc' = "idle"
    /\ call' = NoCall
    /\ result' = NoResult
    /\ out' = <<>>
    /\ invoked' = <<>>
    /\ UNCHANGED <<cmdVars, ioVars, nregs>>

----------------------------------------------------------------------------
(* The name rule: registrations of newly declared commands under root *)

ShortStrings == {<<>>, <<"s">>}

InitName ==
    /\ Name = [ZeroName EXCEPT ![Root] = ProgName]
    /\ Short = ZeroName
    /\ Long = ZeroName
    /\ Usage = ZeroName
    /\ Func = ZeroFunc
    /\ Flags = ZeroFlags
    /\ parent = ZeroParent
    /\ children = ZeroChildren
    /\ longestName = ZeroLongest
    /\ stdin = InitStdin
    /\ stdout = InitStdout
    /\ stderr = InitStderr
    /\ pc = "idle"
    /\ call = NoCall
    /\ result = NoResult
    /\ out = <<>>
    /\ invoked = <<>>
    /\ nregs = 0

\* two commands are declared: the second shows the duplicate-name check
NextName ==
    \/ /\ pc = "idle"
       /\ Cardinality(Fresh) > 1
       /\ \E nm \in NameStrings, sh \in ShortStrings : RegisterNew(nm, sh)
    \/ Continue

SpecName == InitName /\ [][NextName]_vars

----------------------------------------------------------------------------
(* The registry: RegisterChild among the declared commands *)

InitReg ==
    /\ Name = [n \in Nodes |->
                 CASE n = Root -> ProgName
                   [] n = "x" -> <<"a">>
                   [] n = "y" -> <<"l","o","n","g","n","a","m","e">>
                   [] n = "z" -> <<"a">>]
    /\ Short = [n \in Nodes |-> IF n = Root THEN <<>> ELSE <<"s">>]
    /\ Long = ZeroName
    /\ Usage = ZeroName
    /\ Func = ZeroFunc
    /\ Flags = ZeroFlags
    /\ parent = ZeroParent
    /\ children = ZeroChildren
    /\ longestName = ZeroLongest
    /\ stdin = InitStdin
    /\ stdout = InitStdout
    /\ stderr = InitStderr
    /\ pc = "idle"
    /\ call = NoCall
    /\ result = NoResult
    /\ out = <<>>
    /\ invoked = <<>>
    /\ nregs = 0

NextReg ==
    \/ \E c \in Nodes, cmd \in Nodes : RegisterChild(c, cmd)
    \/ SetShort(<<"s">>)
    \/ Continue

SpecReg == InitReg /\ [][NextReg]_vars

----------------------------------------------------------------------------
(* strconv and the flag values, as flag.go and help.go use them *)

DigitVal(c) == Byte(c) - Byte("0")
IsDigits(s) == s # <<>> /\ \A i \in 1..Len(s) : s[i] \in Digit

\* the value of a digit string in base b
RECURSIVE BaseVal(_, _)
BaseVal(s, b) ==
    IF s = <<>> THEN 0
    ELSE BaseVal(SubSeq(s, 1, Len(s) - 1), b) * b + DigitVal(s[Len(s)])

\* strconv.ParseInt(s, 0, strconv.IntSize) on digit strings: decimal, or
\* octal after a leading 0.  A sign, an underscore or a 0x, 0b, 0o prefix is
\* in no string of the model; any other string is a syntax error.
ParseInt(s) ==
    IF ~IsDigits(s) THEN [ok |-> FALSE, val |-> 0]
    ELSE IF Len(s) > 1 /\ s[1] = "0"
         THEN IF \A i \in 1..Len(s) : DigitVal(s[i]) < 8
              THEN [ok |-> TRUE, val |-> BaseVal(s, 8)]
              ELSE [ok |-> FALSE, val |-> 0]
         ELSE [ok |-> TRUE, val |-> BaseVal(s, 10)]

\* strconv.Itoa for n >= 0
RECURSIVE Itoa(_)
Itoa(n) ==
    IF n < 10 THEN <<Ascii[Byte("0") + n]>>
    ELSE Itoa(n \div 10) \o <<Ascii[Byte("0") + (n % 10)]>>

TrueStrings == {<<"1">>, <<"t">>, <<"T">>, <<"T","R","U","E">>,
                <<"t","r","u","e">>, <<"T","r","u","e">>}
FalseStrings == {<<"0">>, <<"f">>, <<"F">>, <<"F","A","L","S","E">>,
                 <<"f","a","l","s","e">>, <<"F","a","l","s","e">>}

\* strconv.ParseBool
ParseBool(s) ==
    IF s \in TrueStrings THEN [ok |-> TRUE, val |-> TRUE]
    ELSE IF s \in FalseStrings THEN [ok |-> TRUE, val |-> FALSE]
    ELSE [ok |-> FALSE, val |-> FALSE]

FormatBool(b) == IF b THEN <<"t","r","u","e">> ELSE <<"f","a","l","s","e">>

\* the types of flag.Value in a flag set: the flag package's own for
\* fs.String, fs.Bool and fs.Int, and help.go's stringValue
ValueTypes == {"flag.stringValue", "flag.boolValue", "flag.intValue",
               "commands.stringValue"}

\* Value.Set(s) followed by Value.String(): the text the flag then holds,
\* or ok = FALSE when Set returns an error
SetValue(type, s) ==
    CASE type = "flag.intValue" ->
            LET r == ParseInt(s)
            IN  [ok |-> r.ok, str |-> IF r.ok THEN Itoa(r.val) ELSE <<>>]
      [] type = "flag.boolValue" ->
            LET r == ParseBool(s)
            IN  [ok |-> r.ok, str |-> IF r.ok THEN FormatBool(r.val) ELSE <<>>]
      [] OTHER -> [ok |-> TRUE, str |-> s]

\* flag.go: FlagString, FlagBool, FlagInt on a parsed flag set
FlagString(f, name) == f.formal[name].val
FlagBool(f, name) == ParseBool(FlagString(f, name)).val
FlagInt(f, name) == ParseInt(FlagString(f, name)).val

----------------------------------------------------------------------------
(* flag.FlagSet.Parse, which Execute calls on args[1:] *)

ErrHelp == "flag: help requested"

\* the index of the first "=" of name at or after its second character, or 0
EqualsAt(name) ==
    LET I == {i \in 2..Len(name) : name[i] = "="}
    IN  IF I = {} THEN 0 ELSE CHOOSE i \in I : \A j \in I : i <= j

\* Parse(arguments) on flag set f: the flag set after it, fs.Args(), the
\* error (Nil for none) and whether failf printed it to the flag set's
\* output; f.Usage is called on every error
RECURSIVE FlagParse(_, _)
FlagParse(f, args) ==
    LET done == [f |-> f, rest |-> args, err |-> Nil, failf |-> FALSE]
        fail(rest, msg) == [f |-> f, rest |-> rest, err |-> msg, failf |-> TRUE]
    IN
    IF args = <<>> THEN done
    ELSE
    LET s == args[1]
    IN
    IF Len(s) < 2 \/ s[1] # "-" THEN done
    ELSE IF s = <<"-", "-">> THEN [done EXCEPT !.rest = Tail(args)]
    ELSE
    LET minuses == IF s[2] = "-" THEN 2 ELSE 1
        full == SubSeq(s, minuses + 1, Len(s))
    IN
    IF full = <<>> \/ full[1] = "-" \/ full[1] = "="
    THEN fail(args, "bad flag syntax")
    ELSE
    LET eq == EqualsAt(full)
        hasValue == eq # 0
        name == IF hasValue THEN SubSeq(full, 1, eq - 1) ELSE full
        value == IF hasValue THEN SubSeq(full, eq + 1, Len(full)) ELSE <<>>
        rest == Tail(args)
    IN
    IF name \notin DOMAIN f.formal
    THEN IF name \in {<<"h","e","l","p">>, <<"h">>}
         THEN [f |-> f, rest |-> rest, err |-> ErrHelp, failf |-> FALSE]
         ELSE fail(rest, "flag provided but not defined")
    ELSE
    LET fl == f.formal[name]
        store(str) == [f EXCEPT !.formal[name].val = str]
    IN
    IF fl.type = "flag.boolValue"
    THEN LET r == SetValue(fl.type, IF hasValue THEN value ELSE <<"t","r","u","e">>)
         IN  IF r.ok THEN FlagParse(store(r.str), rest)
             ELSE fail(rest, "invalid boolean value")
    ELSE IF ~hasValue /\ rest = <<>>
    THEN fail(rest, "flag needs an argument")
    ELSE
    LET v == IF hasValue THEN value ELSE rest[1]
        after == IF hasValue THEN rest ELSE Tail(rest)
        r == SetValue(fl.type, v)
    IN  IF r.ok THEN FlagParse(store(r.str), after)
        ELSE fail(after, "invalid value")

----------------------------------------------------------------------------
(* help.go: the commands block of showHelp *)

\* sort.Strings(keys)
RECURSIVE SortStrings(_)
SortStrings(S) ==
    IF S = {} THEN <<>>
    ELSE LET m == CHOOSE s \in S : \A t \in S \ {s} : StrLess(s, t)
         IN  <<m>> \o SortStrings(S \ {m})

\* strings.TrimSuffix(s, ".")
TrimSuffixDot(s) ==
    IF Len(s) > 0 /\ s[Len(s)] = "." THEN SubSeq(s, 1, Len(s) - 1) ELSE s

\* one line of the commands block: fmt.Sprintf("  %-<longestName>s %s\n",
\* child.Name, short); width is the width the name column comes out at
CommandLine(cmd, k) ==
    LET child == children[cmd][k]
    IN  [name |-> Name[child],
         width |-> Max(longestName[cmd], Len(Name[child])),
         short |-> TrimSuffixDot(Short[child])]

\* the lines of the commands block, in the order printed
CommandsBlock(cmd) ==
    LET keys == SortStrings(DOMAIN children[cmd])
    IN  [i \in 1..Len(keys) |-> CommandLine(cmd, keys[i])]

----------------------------------------------------------------------------
(* help.go: flagHelp, showHelp, helpForCommand *)

RECURSIVE getNames(_)
getNames(cmd) ==
    IF parent[cmd] = Nil THEN <<Name[cmd]>>
    ELSE Append(getNames(parent[cmd]), Name[cmd])

\* the String() of a zero value of the flag's Value type (reflect.New)
ZeroString(type) ==
    CASE type = "flag.boolValue" -> <<"f","a","l","s","e">>
      [] type = "flag.intValue" -> <<"0">>
      [] OTHER -> <<>>

\* isZeroValue(fl, value): value is fl.DefValue at its one call
isZeroValue(fl, value) == value = ZeroString(fl.type)

\* fl.Value.(*stringValue): stringValue is help.go's type of that name
IsStringValue(type) == type = "commands.stringValue"

\* flag.UnquoteUsage: the name of the flag's value, by its type (no usage
\* text of the model holds a back-quoted name)
UnquoteName(type) ==
    CASE type = "flag.boolValue" -> <<>>
      [] type = "flag.intValue" -> <<"i","n","t">>
      [] type = "flag.stringValue" -> <<"s","t","r","i","n","g">>
      [] OTHER -> <<"v","a","l","u","e">>

\* strings.ReplaceAll(usage, "\n", "\n    \t")
RECURSIVE IndentNewlines(_)
IndentNewlines(u) ==
    IF u = <<>> THEN <<>>
    ELSE IF u[1] = "\n" THEN <<"\n", " ", " ", " ", " ", "\t">> \o IndentNewlines(Tail(u))
    ELSE <<u[1]>> \o IndentNewlines(Tail(u))

DefaultOpen == <<" ", "(", "d", "e", "f", "a", "u", "l", "t", " ">>

\* the " (default ...)" suffix of a flag's line, empty when none is printed;
\* %q quotes the value (no value of the model needs escaping)
DefaultSuffix(fl) ==
    IF isZeroValue(fl, fl.def) THEN <<>>
    ELSE IF IsStringValue(fl.type)
         THEN DefaultOpen \o <<"\"">> \o fl.def \o <<"\"", ")">>
         ELSE DefaultOpen \o fl.def \o <<")">>

\* the line flagHelp writes for flag name of f, the builder holding before
\* characters already
FlagLine(f, name, before) ==
    LET fl == f.formal[name]
        hint == UnquoteName(fl.type)
        head == 3 + Len(name) + (IF hint = <<>> THEN 0 ELSE 1 + Len(hint))
        sep == IF before + head <= 4 THEN <<"\t">> ELSE <<" ", " ", " ", " ", "\t">>
        usage == IndentNewlines(fl.usage)
        suffix == DefaultSuffix(fl)
    IN  [name |-> name, hint |-> hint, sep |-> sep, usage |-> usage,
         suffix |-> suffix,
         len |-> head + Len(sep) + Len(usage) + Len(suffix) + 1]

RECURSIVE FlagLines(_, _, _)
FlagLines(f, names, before) ==
    IF names = <<>> THEN <<>>
    ELSE LET line == FlagLine(f, names[1], before)
         IN  <<line>> \o FlagLines(f, Tail(names), before + line.len)

\* flagHelp(f): the lines in VisitAll's order, which is by name
flagHelp(f) ==
    IF f.nil THEN <<>> ELSE FlagLines(f, SortStrings(DOMAIN f.formal), 0)

IsSpace(c) == c \in {" ", "\t", "\n"}

\* strings.TrimSpace
RECURSIVE TrimSpace(_)
TrimSpace(t) ==
    IF t = <<>> THEN <<>>
    ELSE IF IsSpace(t[1]) THEN TrimSpace(Tail(t))
    ELSE IF IsSpace(t[Len(t)]) THEN TrimSpace(SubSeq(t, 1, Len(t) - 1))
    ELSE t

\* the text showHelp(cmd) builds, by its parts; f is cmd.Flags
HelpText(cmd, f) ==
    [short    |-> Short[cmd],
     names    |-> getNames(cmd),
     usage    |-> Usage[cmd],
     command  |-> DOMAIN children[cmd] # {},
     flags    |-> flagHelp(f),
     commands |-> CommandsBlock(cmd),
     long     |-> TrimSpace(Long[cmd])]

----------------------------------------------------------------------------
(* The state one Run works on, and its outcome *)

ExitCodeSuccess == 0
ExitCodeFailure == 1
ExitCodeSerious == 2

NoErr == [msg |-> Nil, arg |-> <<>>]
Err(msg, arg) == [msg |-> msg, arg |-> arg]

HelpToken == <<"h","e","l","p">>

\* status: "running" until Execute returns, panics or the process exits
Return(R, code, err) == [R EXCEPT !.status = "returned", !.code = code, !.err = err]
Panic(R, msg) == [R EXCEPT !.status = "panic", !.err = Err(msg, <<>>)]
Exit(R, code) == [R EXCEPT !.status = "exit", !.code = code]

\* showHelp(cmd): fmt.Fprint(cmd.stdout, result); a nil cmd.stdout is a nil
\* pointer dereference in Fprint
showHelp(R, cmd) ==
    LET w == [stream |-> R.stdout[cmd], kind |-> "help", node |-> cmd,
              text |-> HelpText(cmd, R.flags[cmd])]
        R1 == [R EXCEPT !.out = Append(@, w)]
    IN  IF R.stdout[cmd] = Nil THEN Panic(R1, "nil pointer dereference") ELSE R1

\* args := fl.Args(); if len(args) > 0 && args[0] == "help" { args = args[1:] }
DropHelp(fsArgs) ==
    IF Len(fsArgs) > 0 /\ fsArgs[1] = HelpToken THEN Tail(fsArgs) ELSE fsArgs

\* a plausible slip: a help request for an unknown command succeeds
HelpOutcomeLenient(cmd, args) ==
    IF Len(args) > 2
    THEN [node |-> cmd, code |-> ExitCodeSerious,
          err |-> Err("can only give help with one command", <<>>)]
    ELSE IF Len(args) < 1 \/ args[1] \notin DOMAIN children[cmd]
    THEN [node |-> cmd, code |-> ExitCodeSuccess, err |-> NoErr]
    ELSE [node |-> children[cmd][args[1]], code |-> ExitCodeSuccess, err |-> NoErr]

\* the branches of helpForCommand for the arguments left after "help": the
\* node whose help is shown and what is returned after showing it
HelpOutcome(cmd, args) ==
    IF Len(args) > 2
    THEN [node |-> cmd, code |-> ExitCodeSerious,
          err |-> Err("can only give help with one command", <<>>)]
    ELSE IF Len(args) < 1
    THEN [node |-> cmd, code |-> ExitCodeSuccess, err |-> NoErr]
    ELSE IF args[1] \notin DOMAIN children[cmd]
    THEN [node |-> cmd, code |-> ExitCodeSerious, err |-> Err("unknown command", args[1])]
    ELSE [node |-> children[cmd][args[1]], code |-> ExitCodeSuccess, err |-> NoErr]

\* showHelp(o.node), then return o.code, o.err unless showHelp panicked
ShowAndReturn(R, o) ==
    IF R.stdout[o.node] = Nil THEN showHelp(R, o.node)
    ELSE Return(showHelp(R, o.node), o.code, o.err)

\* helpForCommand(cmd, fl), fsArgs being fl.Args()
helpForCommand(R, cmd, fsArgs) == ShowAndReturn(R, HelpOutcome(cmd, DropHelp(fsArgs)))

----------------------------------------------------------------------------
(* command.go: Execute *)

\* what the program's handlers return: x's reports a failure, z's succeeds
HandlerResult(cmd) ==
    IF cmd = "x" THEN [code |-> ExitCodeFailure, err |-> Err("handler failed", <<>>)]
    ELSE [code |-> ExitCodeSuccess, err |-> NoErr]

\* what a handler is called with
Invocation(R, cmd, f, fsArgs) ==
    [node |-> cmd, stdout |-> R.stdout[cmd], stdin |-> R.stdin[cmd],
     stderr |-> R.stderr[cmd], fs |-> f, args |-> fsArgs]

\* a plausible slip: the handler's exit code is replaced by success
InvokeFuncDropsCode(R, cmd, f, fsArgs) ==
    Return([R EXCEPT !.invoked = Append(@, Invocation(R, cmd, f, fsArgs))],
           ExitCodeSuccess, HandlerResult(cmd).err)

\* return cmd.Func(context.TODO(), cmd.stdout, fs, os.Getenv, cmd.stdin,
\* cmd.stderr): what the handler is given is recorded, and what it returns
\* is returned
InvokeFunc(R, cmd, f, fsArgs) ==
    Return([R EXCEPT !.invoked = Append(@, Invocation(R, cmd, f, fsArgs))],
           HandlerResult(cmd).code, HandlerResult(cmd).err)

\* if cmd.parent != nil { cmd.stdin = cmd.parent.stdin; ... }
InheritStreams(R, cmd) ==
    IF parent[cmd] = Nil THEN R
    ELSE [R EXCEPT !.stdin[cmd] = R.stdin[parent[cmd]],
                   !.stdout[cmd] = R.stdout[parent[cmd]],
                   !.stderr[cmd] = R.stderr[parent[cmd]]]

\* fs := cmd.Flags; if fs == nil { fs = flag.NewFlagSet(cmd.Name, flag.ExitOnError) }
FlagSetOf(R, cmd) == IF R.flags[cmd].nil THEN NoFlags ELSE R.flags[cmd]

\* a plausible slip: the child is handed the arguments after its own name
ChildArgsSkipName(args) == Tail(Tail(args))

\* subcommand.Execute(args[1:])
ChildArgs(args) == Tail(args)

\* the state after fs.Parse(args[1:]) returned pr: a non-nil cmd.Flags keeps
\* the values set, and failf has printed the error to the flag set's output,
\* os.Stderr
AfterParse(R, cmd, pr) ==
    [R EXCEPT !.flags[cmd] = IF @.nil THEN @ ELSE pr.f,
              !.out = IF pr.failf
                      THEN Append(@, [stream |-> "os.Stderr", kind |-> "flag-error",
                                      node |-> cmd, text |-> pr.err])
                      ELSE @]

\* where Execute goes once the flags are parsed: "func" (the handler),
\* "help" (helpForCommand) or "child" (the subcommand named by args[1])
Route(cmd, args) ==
    IF Len(args) = 1 THEN (IF Func[cmd] THEN "func" ELSE "help")
    ELSE IF args[2] = HelpToken THEN "help"
    ELSE IF args[2] \notin DOMAIN children[cmd]
    THEN (IF Func[cmd] THEN "func" ELSE "help")
    ELSE "child"

\* cmd.Execute(args).  fs.Usage is showHelp(cmd): a failed parse shows the
\* help before Parse returns the error or, on an ExitOnError flag set, ends
\* the process (status 0 for ErrHelp, 2 otherwise)
RECURSIVE Execute(_, _, _)
RECURSIVE ExecuteParsed(_, _, _, _)
Execute(R, cmd, args) ==
    IF Len(args) = 0
    THEN Panic([R EXCEPT !.path = Append(@, [node |-> cmd, args |-> args])],
               "invalid execute")
    ELSE IF DOMAIN children[cmd] = {} /\ ~Func[cmd]
    THEN Panic([R EXCEPT !.path = Append(@, [node |-> cmd, args |-> args])],
               "invalid command")
    ELSE ExecuteParsed(InheritStreams([R EXCEPT !.path = Append(@, [node |-> cmd, args |-> args])],
                                      cmd),
                       cmd, args, FlagParse(FlagSetOf(R, cmd), Tail(args)))
ExecuteParsed(R, cmd, args, pr) ==
    IF pr.err # Nil
    THEN IF R.stdout[cmd] = Nil
         THEN showHelp(AfterParse(R, cmd, pr), cmd)
         ELSE IF FlagSetOf(R, cmd).onError = "continue"
         THEN Return(showHelp(AfterParse(R, cmd, pr), cmd), ExitCodeSerious, Err(pr.err, <<>>))
         ELSE Exit(showHelp(AfterParse(R, cmd, pr), cmd), IF pr.err = ErrHelp THEN 0 ELSE 2)
    ELSE
    CASE Route(cmd, args) = "func" ->
            InvokeFunc(AfterParse(R, cmd, pr), cmd, pr.f, pr.rest)
      [] Route(cmd, args) = "help" ->
            helpForCommand(AfterParse(R, cmd, pr), cmd, pr.rest)
      [] Route(cmd, args) = "child" ->
            Execute(AfterParse(R, cmd, pr), children[cmd][args[2]], ChildArgs(args))

----------------------------------------------------------------------------
(* Run and the root's stream setters *)

\* the argument vectors tried: the program name, then up to MaxArgs tokens
Tokens == { HelpToken, <<"x">>, <<"z">>, <<"q">>,
            <<"-","n","=","5">>, <<"-","u">> }
ArgVectors == {<<ProgName>> \o t : t \in StringsUpTo(Tokens, MaxArgs)}

\* the readers and writers a program overrides the root's streams with
Readers == {"reader"}
Writers == {"writer"}

\* Run(args...): root.Execute(args)
Run(args) ==
    /\ pc = "idle"
    /\ LET R0 == [stdin |-> stdin, stdout |-> stdout, stderr |-> stderr, flags |-> Flags,
                  out |-> <<>>, invoked |-> <<>>, path |-> <<>>,
                  status |-> "running", code |-> 0, err |-> NoErr]
           R == Execute(R0, Root, args)
       IN  /\ stdin' = R.stdin
           /\ stdout' = R.stdout
           /\ stderr' = R.stderr
           /\ Flags' = R.flags
           /\ out' = R.out
           /\ invoked' = R.invoked
           /\ call' = [op |-> "Run", args |-> args, path |-> R.path]
           /\ result' = [status |-> R.status, code |-> R.code, err |-> R.err]
           /\ pc' = CASE R.status = "returned" -> "returned"
                      [] R.status = "panic" -> "panicked"
                      [] R.status = "exit" -> "exited"
    /\ UNCHANGED <<Name, Short, Long, Usage, Func, parent, children, longestName, nregs>>

\* func Stdin(r io.Reader) { root.stdin = r }
Stdin(r) ==
    /\ pc = "idle"
    /\ stdin[Root] # r
    /\ stdin' = [stdin EXCEPT ![Root] = r]
    /\ UNCHANGED <<cmdVars, stdout, stderr, callVars>>

\* func Stdout(w io.Writer) { root.stdout = w }
Stdout(w) ==
    /\ pc = "idle"
    /\ stdout[Root] # w
    /\ stdout' = [stdout EXCEPT ![Root] = w]
    /\ UNCHANGED <<cmdVars, stdin, stderr, callVars>>

\* func Stderr(w io.Writer) { root.stderr = w }
Stderr(w) ==
    /\ pc = "idle"
    /\ stderr[Root] # w
    /\ stderr' = [stderr EXCEPT ![Root] = w]
    /\ UNCHANGED <<cmdVars, stdin, stdout, callVars>>

\* the tree of a program whose init() ran x.RegisterChild(z),
\* RegisterChild(x) and Short("r"): root has no handler; x has a handler, an
\* int flag n on a ContinueOnError flag set, and the child z; z has a
\* handler and no flag set; y is declared and not registered
XFlags == [nil |-> FALSE, onError |-> "continue",
           formal |-> (<<"n">> :> [type |-> "flag.intValue", def |-> <<"0">>,
                                   val |-> <<"0">>, usage |-> <<"n">>])]

InitRun ==
    /\ Name = [n \in Nodes |->
                 CASE n = Root -> ProgName
                   [] n = "x" -> <<"x">>
                   [] n = "y" -> <<"y">>
                   [] n = "z" -> <<"z">>]
    /\ Short = [n \in Nodes |-> IF n = Root THEN <<"r">> ELSE <<"s", ".">>]
    /\ Long = [ZeroName EXCEPT !["z"] = <<" ", "l", "\n">>]
    /\ Usage = [ZeroName EXCEPT !["x"] = <<"[", "-", "n", "]">>]
    /\ Func = [n \in Nodes |-> n \in {"x", "z"}]
    /\ Flags = [ZeroFlags EXCEPT !["x"] = XFlags]
    /\ parent = [ZeroParent EXCEPT !["x"] = Root, !["z"] = "x"]
    /\ children = [ZeroChildren EXCEPT ![Root] = (<<"x">> :> "x"), !["x"] = (<<"z">> :> "z")]
    /\ longestName = [ZeroLongest EXCEPT ![Root] = 1, !["x"] = 1]
    /\ stdin = InitStdin
    /\ stdout = InitStdout
    /\ stderr = InitStderr
    /\ pc = "idle"
    /\ call = NoCall
    /\ result = NoResult
    /\ out = <<>>
    /\ invoked = <<>>
    /\ nregs = 0

NextRun ==
    \/ /\ pc = "idle"
       /\ \E args \in ArgVectors : Run(args)
    \/ \E r \in Readers : Stdin(r)
    \/ \E w \in Writers : Stdout(w)
    \/ \E w \in Writers : Stderr(w)
    \/ Continue

SpecRun == InitRun /\ [][NextRun]_vars

----------------------------------------------------------------------------
(* The flags block of the help: flag sets of two flags *)

FlagDefaults(type) ==
    CASE type = "flag.boolValue" -> {<<"f","a","l","s","e">>, <<"t","r","u","e">>}
      [] type = "flag.intValue" -> {<<"0">>, <<"5">>}
      [] OTHER -> {<<>>, <<"d">>}

\* fs.String, fs.Bool, fs.Int or fs.Var(new(stringValue), ...) with default d
NewFlag(type, d) == [type |-> type, def |-> d, val |-> d, usage |-> <<"u", "\n", "v">>]

\* the values set on the command line
SetStrings == {<<>>, <<"5">>, <<"t","r","u","e">>}

InitFlagHelp ==
    /\ \E t1 \in ValueTypes, t2 \in ValueTypes :
       \E d1 \in FlagDefaults(t1), d2 \in FlagDefaults(t2) :
          Flags = [ZeroFlags EXCEPT !["x"] =
                      [nil |-> FALSE, onError |-> "continue",
                       formal |-> (<<"v">> :> NewFlag(t1, d1)) @@ (<<"w","w">> :> NewFlag(t2, d2))]]
    /\ Name = [ZeroName EXCEPT ![Root] = ProgName, !["x"] = <<"x">>]
    /\ Short = [ZeroName EXCEPT !["x"] = <<"s">>]
    /\ Long = ZeroName
    /\ Usage = ZeroName
    /\ Func = [ZeroFunc EXCEPT !["x"] = TRUE]
    /\ parent = ZeroParent
    /\ children = ZeroChildren
    /\ longestName = ZeroLongest
    /\ stdin = InitStdin
    /\ stdout = InitStdout
    /\ stderr = InitStderr
    /\ pc = "idle"
    /\ call = NoCall
    /\ result = NoResult
    /\ out = <<>>
    /\ invoked = <<>>
    /\ nregs = 0

\* x.Flags.Parse(["-name=value"]), as Execute runs it
ParseFlag(name, value) ==
    /\ pc = "idle"
    /\ LET pr == FlagParse(Flags["x"], << <<"-">> \o name \o <<"=">> \o value >>)
       IN  /\ pr.err = Nil
           /\ pr.f # Flags["x"]
           /\ Flags' = [Flags EXCEPT !["x"] = pr.f]
    /\ UNCHANGED <<Name, Short, Long, Usage, Func, parent, children, longestName,
                   ioVars, callVars>>

\* flagHelp(x.Flags), as showHelp(x) calls it
ShowFlagHelp ==
    /\ pc = "idle"
    /\ pc' = "returned"
    /\ call' = [op |-> "flagHelp", fs |-> Flags["x"]]
    /\ out' = flagHelp(Flags["x"])
    /\ result' = [status |-> "returned"]
    /\ UNCHANGED <<cmdVars, ioVars, invoked, nregs>>

NextFlagHelp ==
    \/ \E name \in {<<"v">>, <<"w","w">>}, value \in SetStrings : ParseFlag(name, value)
    \/ ShowFlagHelp
    \/ Continue

SpecFlagHelp == InitFlagHelp /\ [][NextFlagHelp]_vars

----------------------------------------------------------------------------
(* Claims about the registry *)

\* the name format the documentation describes: lowercase alphanumerics and
\* hyphens, no hyphen first or last, no two hyphens adjacent
ValidFormat(nm) ==
    /\ Len(nm) >= 1
    /\ \A i \in 1..Len(nm) : nm[i] \in Lower \cup Digit \cup {"-"}
    /\ nm[1] # "-"
    /\ nm[Len(nm)] # "-"
    /\ \A i \in 1..(Len(nm) - 1) : ~(nm[i] = "-" /\ nm[i + 1] = "-")

Holders(n) == {c \in Nodes : \E k \in DOMAIN children[c] : children[c][k] = n}

\* following parent references from n comes back to n
RECURSIVE OnCycle(_, _, _)
OnCycle(n, m, k) ==
    /\ k > 0
    /\ parent[m] # Nil
    /\ (parent[m] = n \/ OnCycle(n, parent[m], k - 1))

\* a subtree assembled before it is attached to root is allowed here: only
\* a cycle, a parent link to root, or a holder that is not the parent counts
TreeShape ==
    /\ parent[Root] = Nil
    /\ \A n \in Nodes :
          /\ Holders(n) \subseteq {parent[n]}
          /\ ~OnCycle(n, n, Cardinality(Nodes))

\* C7: after any RegisterChild calls that do not abort, every node's parent
\* reference has been set at most once and never changed, every node is in
\* the children map of at most one node, which is its parent, and following
\* parent references from any node reaches the root without a cycle.
C7_SingleParentTree ==
    /\ []TreeShape
    /\ [][\A n \in Nodes : parent[n] # Nil => parent'[n] = parent[n]]_vars

\* the longest name among the direct children of c, 0 when it has none
LongestChild(c) ==
    IF DOMAIN children[c] = {} THEN 0
    ELSE CHOOSE m \in {Len(k) : k \in DOMAIN children[c]} :
            \A k \in DOMAIN children[c] : Len(k) <= m

\* C10: after any RegisterChild calls, aborting or not, a parent's
\* longestName is the length of the longest name among its direct children
\* (0 without children), every key of the children map is the Name of the
\* node under it, and the commands block of the help pads every child name
\* to the width of the longest.
C10_LongestName ==
    \A c \in Nodes :
        /\ longestName[c] = LongestChild(c)
        /\ \A k \in DOMAIN children[c] : Name[children[c][k]] = k
        /\ \A i \in DOMAIN CommandsBlock(c) :
              CommandsBlock(c)[i].width = LongestChild(c)

\* root holds children a and longname, registered longest first, and a third
\* registration has been refused
C10_Witness ==
    /\ DOMAIN children[Root] = {<<"a">>, <<"l","o","n","g","n","a","m","e">>}
    /\ children[Root][<<"a">>] = "x"
    /\ call.op = "RegisterChild" /\ call.c = Root /\ call.cmd = "z"
    /\ pc = "panicked"
    /\ CommandsBlock(Root)[1].name = <<"a">>
    /\ CommandsBlock(Root)[1].width = 8

----------------------------------------------------------------------------
(* Claims about Execute and the help *)

\* the tokens "-name=5" for the flags node n defines
OwnFlagTokens(n) ==
    {<<"-">> \o nm \o <<"=", "5">> : nm \in DOMAIN Flags[n].formal}

\* the help of node n was written
HelpShown(n) == \E i \in DOMAIN out : out[i].kind = "help" /\ out[i].node = n
NoHelpShown == \A i \in DOMAIN out : out[i].kind # "help"

Returned(code, err) ==
    /\ pc = "returned"
    /\ result = [status |-> "returned", code |-> code, err |-> err]

\* the handler of n, and no other, was invoked once
InvokedOnce(n) == Len(invoked) = 1 /\ invoked[1].node = n

\* C1: for a node n with a handler and arguments that are all n's own flags,
\* Execute(n, args) invokes n's handler exactly once with the flag values
\* parsed from them, renders no help and returns the handler's exit code and
\* error unchanged.
C1_HandlerInvoked ==
    call.op = "Run" =>
        \A i \in DOMAIN call.path :
            LET n == call.path[i].node
                a == call.path[i].args
            IN  (Func[n] /\ \A j \in 2..Len(a) : a[j] \in OwnFlagTokens(n)) =>
                    /\ i = Len(call.path)
                    /\ InvokedOnce(n)
                    /\ invoked[1].args = <<>>
                    /\ \A nm \in DOMAIN Flags[n].formal :
                          (\E j \in 2..Len(a) : a[j] = <<"-">> \o nm \o <<"=", "5">>) =>
                              /\ FlagInt(invoked[1].fs, nm) = 5
                              /\ FlagString(invoked[1].fs, nm) = <<"5">>
                    /\ NoHelpShown
                    /\ Returned(HandlerResult(n).code, HandlerResult(n).err)

\* Execute(root, [prog, x, -n=5]): x's handler reads n = 5
C1_Witness ==
    /\ call.op = "Run"
    /\ call.args = <<ProgName, <<"x">>, <<"-","n","=","5">> >>
    /\ InvokedOnce("x")
    /\ FlagInt(invoked[1].fs, <<"n">>) = 5
    /\ pc = "returned"

\* the index in a of the first token after a[1] that is not one of n's own
\* flags, or 0
FirstPositional(n, a) ==
    LET P == {j \in 2..Len(a) : a[j] \notin OwnFlagTokens(n)}
    IN  IF P = {} THEN 0 ELSE CHOOSE j \in P : \A k \in P : j <= k

\* the Execute call at place i of the path recursed into child c with args r
RecursedInto(i, c, r) ==
    /\ i < Len(call.path)
    /\ call.path[i + 1] = [node |-> c, args |-> r]

\* C2, as claimed: once the node's own flags are parsed, if the first
\* remaining token is not "help" and names a child, Execute recurses into
\* that child with the remaining tokens, also when own flags stand between
\* args[0] and the child name.
C2_RecursesAfterFlags ==
    call.op = "Run" =>
        \A i \in DOMAIN call.path :
            LET n == call.path[i].node
                a == call.path[i].args
                k == FirstPositional(n, a)
            IN  (k # 0 /\ a[k] # HelpToken /\ a[k] \in DOMAIN children[n]) =>
                    RecursedInto(i, children[n][a[k]], SubSeq(a, k, Len(a)))

\* C2, amended: if args[1] is not "help" and names a child, Execute recurses
\* into that child with args[1:].
C2_RecursesOnFirstToken ==
    call.op = "Run" =>
        \A i \in DOMAIN call.path :
            LET n == call.path[i].node
                a == call.path[i].args
            IN  (Len(a) >= 2 /\ a[2] # HelpToken /\ a[2] \in DOMAIN children[n]) =>
                    RecursedInto(i, children[n][a[2]], Tail(a))

\* Execute(root, [prog, x, z, -u]) goes down to z with [z, -u]
C2_Witness ==
    /\ call.op = "Run"
    /\ call.args = <<ProgName, <<"x">>, <<"z">>, <<"-","u">> >>
    /\ Len(call.path) = 3
    /\ call.path[3] = [node |-> "z", args |-> << <<"z">>, <<"-","u">> >>]

\* the first token after args[0] is neither "help" nor a child of n
Unresolved(n, a) ==
    Len(a) >= 2 /\ a[2] # HelpToken /\ a[2] \notin DOMAIN children[n]

ParsesClean(n, a) == FlagParse(Flags[n], Tail(a)).err = Nil
IsFlagToken(t) == Len(t) >= 2 /\ t[1] = "-"

C4_HelpWithOneCommandOnly ==
    (call.op = "Run" /\ pc = "returned") =>
        \A i \in DOMAIN call.path :
            LET n == call.path[i].node
                a == call.path[i].args
            IN  (Len(a) >= 4 /\ a[2] = HelpToken) =>
                    /\ HelpShown(n)
                    /\ Returned(ExitCodeSerious,
                                Err("can only give help with one command", <<>>))

\* C5: Execute(node, [name, help, t]) on a node with children renders the
\* help of child t and returns success when t names a child, renders the
\* node's own help and returns the serious code with "unknown command" when
\* it does not, and invokes no handler.
C5_HelpForChild ==
    call.op = "Run" =>
        \A i \in DOMAIN call.path :
            LET n == call.path[i].node
                a == call.path[i].args
            IN  (Len(a) = 3 /\ a[2] = HelpToken /\ DOMAIN children[n] # {}) =>
                    /\ invoked = <<>>
                    /\ IF a[3] \in DOMAIN children[n]
                       THEN /\ HelpShown(children[n][a[3]])
                            /\ Returned(ExitCodeSuccess, NoErr)
                       ELSE /\ HelpShown(n)
                            /\ Returned(ExitCodeSerious, Err("unknown command", a[3]))

\* C6: every write of help text and every handler invocation of a Run uses
\* the root's current streams, whichever node it belongs to.
C6_RootStreamsEverywhere ==
    call.op = "Run" =>
        /\ \A i \in DOMAIN out :
              out[i].kind = "help" => out[i].stream = stdout[Root]
        /\ \A i \in DOMAIN invoked :
              /\ invoked[i].stdin = stdin[Root]
              /\ invoked[i].stdout = stdout[Root]
              /\ invoked[i].stderr = stderr[Root]

\* the type of a flag's value is a string type
StringTyped(type) == type \in {"flag.stringValue", "commands.stringValue"}

\* C9: a flag's line of the help carries a " (default <value>)" suffix
\* exactly when the flag's current value differs from the zero value of its
\* type, and the value of a string-typed flag is quoted.
C9_DefaultSuffix ==
    call.op = "flagHelp" =>
        \A i \in DOMAIN out :
            LET fl == call.fs.formal[out[i].name]
                shown == out[i].suffix # <<>>
            IN  /\ shown <=> fl.val # ZeroString(fl.type)
                /\ shown =>
                      (out[i].suffix[Len(DefaultOpen) + 1] = "\"" <=> StringTyped(fl.type))

====
